---- MODULE Spec2Model ----
(***************************************************************************)
(* A model of the minio-resource Concourse resource: the check command     *)
(* (version detection over a bucket listing) and the in command (bounded   *)
(* parallel bulk download).  Each command is a one-shot process; a process *)
(* position is kept in pc, the store is the bucket the commands talk to.   *)
(*                                                                         *)
(* Strings that the code compares or cuts (object keys) are sequences of   *)
(* one-character strings; timestamps are integers (ticks).                 *)
(***************************************************************************)
EXTENDS Integers, Sequences, FiniteSets, TLC

VARIABLES
    store,      \* the bucket: a set of objects [Key, ETag, LastModified, Size]
    request,    \* the decoded request: [source, version, params]
    pc,         \* position of the command's main goroutine
    exit,       \* process exit code: -1 while running, 0 success, 1 fatal
    stdout,     \* documents written to standard output, in order
    storeOps,   \* store operations invoked so far by this process
    objects,    \* result of Client.ListObjects: sequence of ObjectInfo
    versions,   \* check: the versions slice
    run,        \* number of the invocation the driver is running
    prevOut,    \* what the previous invocation wrote to stdout, <<>> if none
    parallel,   \* in: main's parallel, decoded from params
    semCap,     \* DownloadAllObjects: cap(sem)
    sem,        \* DownloadAllObjects: number of tokens in the channel sem
    wg,         \* DownloadAllObjects: the WaitGroup counter
    gpc,        \* DownloadAllObjects: position of the goroutine of each index
    results,    \* DownloadAllObjects: the results slice
    transfers,  \* what happened to each transfer at the store and the disk
    overtaken,  \* whether a transfer ended while one listed before it had not
    counts,     \* in: [successCount, failCount]
    metadata,   \* in: the metadata slice
    versionFile, \* in: what <destination>/.resource_version.json holds
    listErr,    \* DownloadAllObjects: whether err of c.ListObjects is non-nil
    disk,       \* in: the files below the destination, a set of [path, content]
    cmd,        \* the command this process runs: "check", "in" or "out"
    sourceDir,  \* out: the entries of the source directory
    files,      \* out: the result of filepath.Glob
    fileIdx,    \* out: position of the upload loop in files
    attempts,   \* out: what happened to each file of the upload loop
    uploadedFiles, \* out: the uploadedFiles slice
    lastVersion, \* out: the lastVersion variable
    fsOps       \* out: the file system calls made: "glob", "stat", "open"

inVars == <<parallel, semCap, sem, wg, gpc, results, transfers, overtaken,
           counts, metadata, versionFile, listErr, disk>>

outVars == <<sourceDir, files, fileIdx, attempts, uploadedFiles, lastVersion, fsOps>>

vars == <<cmd, store, request, pc, exit, stdout, storeOps, objects, versions, run, prevOut,
          inVars, outVars>>

-----------------------------------------------------------------------------
(* Bounds of the model *)

\* timestamps range over 0..MaxTime
MaxTime == 2

\* the bucket holds at most MaxObjects objects when in runs
MaxObjects == 2

\* ticks per second: the wire format (RFC3339) keeps whole seconds only
TicksPerSecond == 2

\* the driver invokes a command at most this many times on the same input
Runs == {1, 2}

Times == 0..MaxTime
ETags == {"e1", "e2"}

\* the keys the bucket may hold, all under the prefix "d/"
CheckKeys == { <<"d", "/", "a">>, <<"d", "/", "a", "b">>, <<"d", "/", "b">> }

-----------------------------------------------------------------------------
(* Strings *)

\* byte value of a character (Go compares strings bytewise)
CharCode(c) ==
    CASE c = "/" -> 47
      [] c = "a" -> 97
      [] c = "b" -> 98
      [] c = "d" -> 100

\* Go's s < t on strings
RECURSIVE StrLess(_, _)
StrLess(s, t) ==
    IF t = <<>> THEN FALSE
    ELSE IF s = <<>> THEN TRUE
    ELSE IF CharCode(Head(s)) # CharCode(Head(t))
         THEN CharCode(Head(s)) < CharCode(Head(t))
         ELSE StrLess(Tail(s), Tail(t))

\* strings.HasPrefix / strings.HasSuffix
HasPrefix(s, p) == Len(s) >= Len(p) /\ SubSeq(s, 1, Len(p)) = p
HasSuffix(s, p) == Len(s) >= Len(p) /\ SubSeq(s, Len(s) - Len(p) + 1, Len(s)) = p

-----------------------------------------------------------------------------
(* models: Source, Version *)

ValidSource == [endpoint |-> "set", accessKey |-> "set", secretKey |-> "set",
                bucket |-> "set", pathPrefix |-> <<"d">>]

\* the zero Version: what a request without a version decodes to
NoVersion == [path |-> <<>>, etag |-> "", lastModified |-> 0]

validateSourceWithoutBucket(source) ==
    /\ source.endpoint # ""
    /\ source.accessKey # ""
    /\ source.secretKey # ""

\* validateSource: TRUE when it returns nil
validateSource(source) ==
    /\ source.endpoint # ""
    /\ source.accessKey # ""
    /\ source.secretKey # ""
    /\ source.bucket # ""

\* NewClient: the normalised path prefix kept in the Client
ClientPathPrefix(source) ==
    IF source.pathPrefix # <<>> /\ ~HasSuffix(source.pathPrefix, <<"/">>)
    THEN source.pathPrefix \o <<"/">>
    ELSE source.pathPrefix

-----------------------------------------------------------------------------
(* The store and Client.ListObjects *)

\* every order in which a finite set can be enumerated
Orderings(S) ==
    { f \in [1..Cardinality(S) -> S] :
        \A i, j \in 1..Cardinality(S) : i # j => f[i] # f[j] }

StoreListingsOfVersion(prefix) ==
    Orderings({ o \in store : /\ HasPrefix(o.Key, prefix)
                              /\ request.version.path # <<>> => o.Key = request.version.path })

\* what the store sends for a recursive listing under prefix: the objects
\* whose key starts with prefix, in an order of the store's choosing
StoreListings(prefix) ==
    Orderings({ o \in store : HasPrefix(o.Key, prefix) })

\* the loop body of ListObjects: directory markers are skipped
IsDirectoryMarker(object) == HasSuffix(object.Key, <<"/">>) /\ object.Size = 0

ToObjectInfo(object) ==
    [Path |-> object.Key, ETag |-> object.ETag,
     LastModified |-> object.LastModified, Size |-> object.Size]

RECURSIVE ListObjects(_)
ListObjects(listing) ==
    IF listing = <<>> THEN <<>>
    ELSE IF IsDirectoryMarker(Head(listing))
         THEN ListObjects(Tail(listing))
         ELSE <<ToObjectInfo(Head(listing))>> \o ListObjects(Tail(listing))

-----------------------------------------------------------------------------
(* check *)

HasVersion(req) == req.version.path # <<>>

ToVersion(obj) ==
    [path |-> obj.Path, etag |-> obj.ETag, lastModified |-> obj.LastModified]

SameObjectByPath(version, prior) == version.path = prior.path

\* the two "continue" tests of the conversion loop
SameObject(version, prior) ==
    version.path = prior.path /\ version.etag = prior.etag

AfterOrEqual(t, u) == t >= u

\* time.Time.After
After(t, u) == t > u

NotNewer(version, prior) == ~After(version.lastModified, prior.lastModified)

Skipped(version, req) ==
    HasVersion(req) /\ (SameObject(version, req.version) \/ NotNewer(version, req.version))

\* the conversion loop: objects to versions, in listing order
RECURSIVE ConvertObjects(_, _)
ConvertObjects(objs, req) ==
    IF objs = <<>> THEN <<>>
    ELSE IF Skipped(ToVersion(Head(objs)), req)
         THEN ConvertObjects(Tail(objs), req)
         ELSE <<ToVersion(Head(objs))>> \o ConvertObjects(Tail(objs), req)

SortLessNoTieBreak(a, b) == a.lastModified < b.lastModified

\* the comparator handed to sort.Slice
SortLess(a, b) ==
    IF a.lastModified = b.lastModified
    THEN StrLess(a.path, b.path)
    ELSE a.lastModified < b.lastModified

\* sort.Slice is not stable: any permutation that the comparator accepts
SortSlice(s) ==
    { p \in [1..Len(s) -> { s[i] : i \in 1..Len(s) }] :
        /\ \E f \in [1..Len(s) -> 1..Len(s)] :
              /\ \A i, j \in 1..Len(s) : i # j => f[i] # f[j]
              /\ \A i \in 1..Len(s) : p[i] = s[f[i]]
        /\ \A i, j \in 1..Len(s) : i < j => ~SortLess(p[j], p[i]) }

WithoutFallback(vs, req) == vs

\* the fallback to the prior version
WithFallback(vs, req) ==
    IF Len(vs) = 0 /\ HasVersion(req) THEN Append(vs, req.version) ELSE vs

\* Version.MarshalJSON: the timestamp is formatted as RFC3339, whole seconds
FormatRFC3339(t) == t - (t % TicksPerSecond)

MarshalVersion(v) ==
    [path |-> v.path, etag |-> v.etag, last_modified |-> FormatRFC3339(v.lastModified)]

\* json encoding of a CheckResponse
EncodeCheckResponse(vs) == [i \in 1..Len(vs) |-> MarshalVersion(vs[i])]

-----------------------------------------------------------------------------
(* The check command, step by step *)

Sources ==
    {ValidSource} \cup
    { [ValidSource EXCEPT ![f] = ""] : f \in {"endpoint", "accessKey", "secretKey", "bucket"} }

PriorVersions ==
    {NoVersion} \cup [path : CheckKeys, etag : ETags, lastModified : Times]

Absent == [Key |-> <<>>]

\* the buckets the check command is run against: each key absent or present once
CheckStores ==
    { { f[k] : k \in { k \in CheckKeys : f[k] # Absent } } :
        f \in { g \in [CheckKeys -> {Absent} \cup
                          [Key : CheckKeys, ETag : ETags, LastModified : Times, Size : {1}]] :
                  \A k \in CheckKeys : g[k] # Absent => g[k].Key = k } }

\* the check command has no use for the variables of in
InVarsUnused ==
    /\ parallel = 0 /\ semCap = 0 /\ sem = 0 /\ wg = 0
    /\ gpc = <<>> /\ results = <<>> /\ transfers = <<>> /\ overtaken = FALSE
    /\ counts = <<>> /\ metadata = <<>> /\ versionFile = <<>>
    /\ listErr = FALSE /\ disk = {}

\* only the out command has the variables of out
OutVarsUnused ==
    /\ sourceDir = {} /\ files = <<>> /\ fileIdx = 0
    /\ attempts = <<>> /\ uploadedFiles = <<>> /\ lastVersion = <<>>
    /\ fsOps = {}

InitCheck ==
    /\ cmd = "check"
    /\ store \in CheckStores
    /\ request \in [source : Sources, version : PriorVersions, params : {<<>>}]
    /\ pc = "validate"
    /\ exit = -1
    /\ stdout = <<>>
    /\ storeOps = {}
    /\ objects = <<>>
    /\ versions = <<>>
    /\ run = 1
    /\ prevOut = <<>>
    /\ InVarsUnused
    /\ OutVarsUnused

\* fatal(): a line on stderr, exit code 1, nothing on stdout
Fatal ==
    /\ pc' = "fatal"
    /\ exit' = 1

CheckValidateFails ==
    /\ cmd = "check"
    /\ pc = "validate"
    /\ ~validateSource(request.source)
    /\ Fatal
    /\ UNCHANGED <<cmd, store, request, stdout, storeOps, objects, versions, run, prevOut, outVars, inVars>>

CheckValidate ==
    /\ cmd = "check"
    /\ pc = "validate"
    /\ validateSource(request.source)
    /\ pc' = "bucketExists"
    /\ UNCHANGED <<cmd, store, request, exit, stdout, storeOps, objects, versions, run, prevOut, outVars, inVars>>

\* client.BucketExists answers true
CheckBucketExists ==
    /\ cmd = "check"
    /\ pc = "bucketExists"
    /\ storeOps' = storeOps \cup {"bucketExists"}
    /\ pc' = "list"
    /\ UNCHANGED <<cmd, store, request, exit, stdout, objects, versions, run, prevOut, outVars, inVars>>

\* client.BucketExists fails, or answers false
CheckBucketMissing ==
    /\ cmd = "check"
    /\ pc = "bucketExists"
    /\ storeOps' = storeOps \cup {"bucketExists"}
    /\ Fatal
    /\ UNCHANGED <<cmd, store, request, stdout, objects, versions, run, prevOut, outVars, inVars>>

CheckListObjects ==
    /\ cmd = "check"
    /\ pc = "list"
    /\ storeOps' = storeOps \cup {"listObjects"}
    /\ \E listing \in StoreListings(ClientPathPrefix(request.source)) :
          objects' = ListObjects(listing)
    /\ pc' = "convert"
    /\ UNCHANGED <<cmd, store, request, exit, stdout, versions, run, prevOut, outVars, inVars>>

\* the listing channel delivers an error
CheckListFails ==
    /\ cmd = "check"
    /\ pc = "list"
    /\ storeOps' = storeOps \cup {"listObjects"}
    /\ Fatal
    /\ UNCHANGED <<cmd, store, request, stdout, objects, versions, run, prevOut, outVars, inVars>>

CheckConvert ==
    /\ cmd = "check"
    /\ pc = "convert"
    /\ versions' = ConvertObjects(objects, request)
    /\ pc' = "sort"
    /\ UNCHANGED <<cmd, store, request, exit, stdout, storeOps, objects, run, prevOut, outVars, inVars>>

CheckSort ==
    /\ cmd = "check"
    /\ pc = "sort"
    /\ versions' \in SortSlice(versions)
    /\ pc' = "respond"
    /\ UNCHANGED <<cmd, store, request, exit, stdout, storeOps, objects, run, prevOut, outVars, inVars>>

\* the fallback, the response on stdout, and the return from main
CheckRespond ==
    /\ cmd = "check"
    /\ pc = "respond"
    /\ versions' = WithFallback(versions, request)
    /\ stdout' = Append(stdout, EncodeCheckResponse(versions'))
    /\ pc' = "done"
    /\ exit' = 0
    /\ UNCHANGED <<cmd, store, request, storeOps, objects, run, prevOut, outVars, inVars>>

\* the driver runs check again with the same request; nothing is carried
\* over from one process to the next
CheckAgain ==
    /\ cmd = "check"
    /\ pc = "done"
    /\ run + 1 \in Runs
    /\ run' = run + 1
    /\ prevOut' = stdout
    /\ pc' = "validate"
    /\ exit' = -1
    /\ stdout' = <<>>
    /\ storeOps' = {}
    /\ objects' = <<>>
    /\ versions' = <<>>
    /\ UNCHANGED <<cmd, store, request, inVars, outVars>>

NextCheck ==
    \/ CheckValidateFails
    \/ CheckValidate
    \/ CheckBucketExists
    \/ CheckBucketMissing
    \/ CheckListObjects
    \/ CheckListFails
    \/ CheckConvert
    \/ CheckSort
    \/ CheckRespond
    \/ CheckAgain

SpecCheck == InitCheck /\ [][NextCheck]_vars

-----------------------------------------------------------------------------
(* Properties of check *)

Range(s) == { s[i] : i \in 1..Len(s) }

CheckDone == pc = "done"

\* ascending by timestamp, ties in ascending path order
SortedByTimeThenPath(vs) ==
    \A i, j \in 1..Len(vs) : i < j =>
        \/ vs[i].lastModified < vs[j].lastModified
        \/ /\ vs[i].lastModified = vs[j].lastModified
           /\ (StrLess(vs[i].path, vs[j].path) \/ vs[i].path = vs[j].path)

\* vs holds each element of the sequence of versions ws exactly once
OneEach(vs, ws) ==
    /\ Len(vs) = Len(ws)
    /\ \E f \in [1..Len(vs) -> 1..Len(ws)] :
          /\ \A i, j \in 1..Len(vs) : i # j => f[i] # f[j]
          /\ \A i \in 1..Len(vs) : vs[i] = ws[f[i]]

ListedVersions == [i \in 1..Len(objects) |-> ToVersion(objects[i])]

\* the listed objects strictly newer than the prior version and not identical to it
NewerAndDifferent(v) ==
    /\ ~(v.path = request.version.path /\ v.etag = request.version.etag)
    /\ v.lastModified > request.version.lastModified

\* C1: without a prior version check returns one version per listed object,
\* nothing dropped and nothing added, ascending by timestamp and then by path.
C1_ColdStartReturnsAllSorted ==
    (CheckDone /\ ~HasVersion(request)) =>
        /\ OneEach(versions, ListedVersions)
        /\ SortedByTimeThenPath(versions)

\* a cold start over three objects, two of them with the same timestamp,
\* listed by the store in an order that is not the output order
C1_Witness ==
    /\ CheckDone /\ ~HasVersion(request)
    /\ Len(objects) = 3
    /\ ListedVersions # versions
    /\ \E i, j \in 1..Len(objects) :
          /\ i < j
          /\ objects[i].LastModified = objects[j].LastModified
          /\ StrLess(objects[j].Path, objects[i].Path)

\* C2: with a prior version V check never returns an empty sequence, and when
\* no listed object is strictly newer than V it returns exactly <<V>>.
C2_NeverEmptyWithPrior ==
    (CheckDone /\ HasVersion(request)) =>
        /\ Len(versions) >= 1
        /\ (\A i \in 1..Len(objects) :
               ~(objects[i].LastModified > request.version.lastModified))
           => versions = <<request.version>>

\* a non-empty listing with nothing newer than V, answered by <<V>>
C2_Witness ==
    /\ CheckDone /\ HasVersion(request)
    /\ Len(objects) >= 2
    /\ \A i \in 1..Len(objects) :
          ~(objects[i].LastModified > request.version.lastModified)
    /\ request.version \notin Range(ListedVersions)
    /\ versions = <<request.version>>

C4_ReturnsExactlyTheNewer ==
    (/\ CheckDone /\ HasVersion(request)
     /\ \E v \in Range(ListedVersions) : NewerAndDifferent(v)) =>
        /\ Range(versions) = { v \in Range(ListedVersions) : NewerAndDifferent(v) }
        /\ Len(versions) = Cardinality(Range(versions))
        /\ SortedByTimeThenPath(versions)

\* V's path is listed with another etag and a later timestamp, next to an
\* older object that is dropped and a second newer one
C4_Witness ==
    /\ CheckDone /\ HasVersion(request)
    /\ Len(objects) = 3 /\ Len(versions) = 2
    /\ \E v \in Range(versions) :
          v.path = request.version.path /\ v.etag # request.version.etag
    /\ ListedVersions # versions \o SelectSeq(ListedVersions, LAMBDA v : ~NewerAndDifferent(v))

\* C5: the response of check is a function of the bucket's contents and the
\* prior version alone: a second invocation on the same bucket and request,
\* whatever the order the store lists in, writes the same response; and no
\* step of check changes the bucket.
C5_SameInputSameOutput ==
    /\ []((CheckDone /\ run = 2) => stdout = prevOut)
    /\ [][store' = store]_vars

\* a second invocation ended, over a listing that the sort had to reorder
\* and that holds two objects with the same timestamp
C5_Witness ==
    /\ CheckDone /\ run = 2
    /\ Len(versions) = 3
    /\ ListedVersions # versions
    /\ \E i, j \in 1..Len(versions) : i # j /\ versions[i].lastModified = versions[j].lastModified

\* C6 as stated: a listed object at the prior version's path whose etag
\* differs from the prior version's is reported as a new version.
C6_ETagChangeIsReported ==
    (CheckDone /\ HasVersion(request)) =>
        \A i \in 1..Len(objects) :
            (objects[i].Path = request.version.path /\ objects[i].ETag # request.version.etag)
                => ToVersion(objects[i]) \in Range(versions)

-----------------------------------------------------------------------------
(* strconv *)

Digits == <<"0", "1", "2", "3", "4", "5", "6", "7", "8", "9">>

IsDigit(c) == \E d \in 1..10 : Digits[d] = c

DigitValue(c) == (CHOOSE d \in 1..10 : Digits[d] = c) - 1

RECURSIVE DigitsValue(_, _)
DigitsValue(s, acc) ==
    IF s = <<>> THEN acc ELSE DigitsValue(Tail(s), acc * 10 + DigitValue(Head(s)))

\* strconv.Atoi: [ok, value]; an optional sign and at least one digit
Atoi(s) ==
    LET body == IF s # <<>> /\ Head(s) \in {"+", "-"} THEN Tail(s) ELSE s
    IN  IF body = <<>> \/ \E i \in 1..Len(body) : ~IsDigit(body[i])
        THEN [ok |-> FALSE, value |-> 0]
        ELSE [ok |-> TRUE,
              value |-> IF Head(s) = "-" THEN 0 - DigitsValue(body, 0)
                        ELSE DigitsValue(body, 0)]

RECURSIVE NatDigits(_)
NatDigits(n) ==
    IF n < 10 THEN <<Digits[n + 1]>> ELSE Append(NatDigits(n \div 10), Digits[(n % 10) + 1])

\* strconv.Itoa
Itoa(n) == IF n < 0 THEN <<"-">> \o NatDigits(0 - n) ELSE NatDigits(n)

-----------------------------------------------------------------------------
(* in: the parallel parameter *)

\* the default of main and of DownloadAllObjects
DefaultParallel == 5

\* a JSON number is decoded as a float64; the model keeps it in halves
\* int(v) truncates toward zero
IntOfFloat(halves) ==
    IF halves >= 0 THEN halves \div 2 ELSE 0 - ((0 - halves) \div 2)

\* main: "Determine parallelism from params"
ParseParallel(params) ==
    IF "parallel" \notin DOMAIN params THEN DefaultParallel
    ELSE LET p == params.parallel
         IN  CASE p.type = "float64" -> IntOfFloat(p.halves)
               [] p.type = "string" ->
                    IF Atoi(p.text).ok THEN Atoi(p.text).value ELSE DefaultParallel
               [] OTHER -> DefaultParallel

EffectiveParallelAsGiven(n) == n

\* DownloadAllObjects: "if parallel <= 0 { parallel = 5 }"
EffectiveParallel(n) == IF n <= 0 THEN DefaultParallel ELSE n

-----------------------------------------------------------------------------
(* path/filepath and strings, as far as DownloadAllObjects uses them *)

\* strings.TrimPrefix
TrimPrefix(s, p) == IF HasPrefix(s, p) THEN SubSeq(s, Len(p) + 1, Len(s)) ELSE s

RECURSIVE TrimTrailingSlashes(_)
TrimTrailingSlashes(s) ==
    IF s # <<>> /\ s[Len(s)] = "/" THEN TrimTrailingSlashes(SubSeq(s, 1, Len(s) - 1)) ELSE s

RECURSIVE LastElement(_)
LastElement(s) ==
    IF s = <<>> \/ s[Len(s)] = "/" THEN <<>>
    ELSE Append(LastElement(SubSeq(s, 1, Len(s) - 1)), s[Len(s)])

\* filepath.Base: the last element, trailing slashes removed first
Base(path) ==
    IF path = <<>> THEN <<".">>
    ELSE IF TrimTrailingSlashes(path) = <<>> THEN <<"/">>
    ELSE LastElement(TrimTrailingSlashes(path))

\* filepath.Clean on paths without "." and ".." elements: repeated
\* separators collapse and a trailing separator goes
RECURSIVE CollapseSlashes(_)
CollapseSlashes(s) ==
    IF Len(s) < 2 THEN s
    ELSE IF s[1] = "/" /\ s[2] = "/" THEN CollapseSlashes(Tail(s))
    ELSE <<s[1]>> \o CollapseSlashes(Tail(s))

Clean(path) ==
    LET c == CollapseSlashes(path)
    IN  IF c = <<>> THEN <<".">>
        ELSE IF Len(c) > 1 /\ c[Len(c)] = "/" THEN SubSeq(c, 1, Len(c) - 1)
        ELSE c

\* filepath.Join of two elements: empty elements are ignored
Join(dir, elem) ==
    IF dir = <<>> /\ elem = <<>> THEN <<>>
    ELSE IF dir = <<>> THEN Clean(elem)
    ELSE IF elem = <<>> THEN Clean(dir)
    ELSE Clean(dir \o <<"/">> \o elem)

\* the destination directory, os.Args[1] of in
Destination == <<"t">>

LocalPathNoFallback(objectPath, pathPrefix) == TrimPrefix(objectPath, pathPrefix)

\* "Calculate local path by removing the prefix"
LocalPath(objectPath, pathPrefix) ==
    IF TrimPrefix(objectPath, pathPrefix) = <<>>
    THEN Base(objectPath)
    ELSE TrimPrefix(objectPath, pathPrefix)

\* fullPath := filepath.Join(destDir, localPath)
FullPath(destDir, objectPath, pathPrefix) == Join(destDir, LocalPath(objectPath, pathPrefix))

-----------------------------------------------------------------------------
(* in: DownloadAllObjects *)

NilError == "nil"

\* the zero DownloadResult
ZeroResult == [Path |-> <<>>, Error |-> NilError]

RecordInFirstFreeSlot(res, idx, result) ==
    LET free == { i \in 1..Len(res) : res[i] = ZeroResult }
    IN  IF free = {} THEN res
        ELSE [res EXCEPT ![CHOOSE i \in free : \A j \in free : i <= j] = result]

DropResult(res, idx, result) == res

\* results[idx] = result
RecordResult(res, idx, result) == [res EXCEPT ![idx] = result]

\* the goroutine holds a slot of sem
InFlight(idx) == gpc[idx] \in {"mkdir", "download", "release"}

AcquireAlways(tokens, capacity) == TRUE

\* a send on sem goes through when the channel is not full
CanAcquire(tokens, capacity) == tokens < capacity

\* c.ListObjects answers; every listed path is printed with fmt.Println
DlListObjects ==
    /\ cmd = "in"
    /\ pc = "dlList"
    /\ storeOps' = storeOps \cup {"listObjects"}
    /\ \E listing \in StoreListings(ClientPathPrefix(request.source)) :
          objects' = ListObjects(listing)
    /\ stdout' = stdout \o [i \in 1..Len(objects') |-> [line |-> objects'[i].Path]]
    /\ listErr' = FALSE
    /\ pc' = "dlSetup"
    /\ UNCHANGED <<cmd, store, request, exit, versions, run, prevOut, outVars,
                   parallel, semCap, sem, wg, gpc, results, transfers, overtaken,
                   counts, metadata, versionFile, disk>>

\* c.ListObjects returns (nil, err): the range over objects has no
\* iteration, so err is never looked at
DlListFails ==
    /\ cmd = "in"
    /\ pc = "dlList"
    /\ storeOps' = storeOps \cup {"listObjects"}
    /\ objects' = <<>>
    /\ listErr' = TRUE
    /\ pc' = "dlSetup"
    /\ UNCHANGED <<cmd, store, request, exit, stdout, versions, run, prevOut, outVars,
                   parallel, semCap, sem, wg, gpc, results, transfers, overtaken,
                   counts, metadata, versionFile, disk>>

\* the default, make(chan struct{}, parallel), make([]DownloadResult, len(objects))
DlSetup ==
    /\ cmd = "in"
    /\ pc = "dlSetup"
    /\ semCap' = EffectiveParallel(parallel)
    /\ sem' = 0
    /\ wg' = 0
    /\ results' = [i \in 1..Len(objects) |-> ZeroResult]
    /\ gpc' = [i \in 1..Len(objects) |-> "none"]
    /\ transfers' = [i \in 1..Len(objects) |-> "none"]
    /\ pc' = "dlSpawn"
    /\ UNCHANGED <<cmd, store, request, exit, stdout, storeOps, objects, versions, run, prevOut, outVars,
                   parallel, overtaken, counts, metadata, versionFile, listErr, disk>>

\* one iteration of "for i, obj := range objects": wg.Add(1); go func(...)
DlSpawn ==
    /\ cmd = "in"
    /\ pc = "dlSpawn"
    /\ \E idx \in 1..Len(objects) :
          /\ gpc[idx] = "none"
          /\ \A j \in 1..(idx - 1) : gpc[j] # "none"
          /\ wg' = wg + 1
          /\ gpc' = [gpc EXCEPT ![idx] = "acquire"]
    /\ UNCHANGED <<cmd, store, request, pc, exit, stdout, storeOps, objects, versions, run, prevOut, outVars,
                   parallel, semCap, sem, results, transfers, overtaken, counts, metadata, versionFile, listErr, disk>>

\* the range is exhausted: main goes on to wg.Wait()
DlSpawnEnd ==
    /\ cmd = "in"
    /\ pc = "dlSpawn"
    /\ \A idx \in 1..Len(objects) : gpc[idx] # "none"
    /\ pc' = "dlWait"
    /\ UNCHANGED <<cmd, store, request, exit, stdout, storeOps, objects, versions, run, prevOut, outVars, inVars>>

\* sem <- struct{}{}
GAcquire(idx) ==
    /\ gpc[idx] = "acquire"
    /\ CanAcquire(sem, semCap)
    /\ sem' = sem + 1
    /\ gpc' = [gpc EXCEPT ![idx] = "mkdir"]
    /\ UNCHANGED <<cmd, store, request, pc, exit, stdout, storeOps, objects, versions, run, prevOut, outVars,
                   parallel, semCap, wg, results, transfers, overtaken, counts, metadata, versionFile, listErr, disk>>

\* a transfer listed before idx has not ended yet
Overtakes(idx) == \E j \in 1..(idx - 1) : transfers[j] = "none"

\* os.MkdirAll succeeds
GMkdirAll(idx) ==
    /\ gpc[idx] = "mkdir"
    /\ gpc' = [gpc EXCEPT ![idx] = "download"]
    /\ UNCHANGED <<cmd, store, request, pc, exit, stdout, storeOps, objects, versions, run, prevOut, outVars,
                   parallel, semCap, sem, wg, results, transfers, overtaken, counts, metadata, versionFile, listErr, disk>>

GMkdirAllFailsKeepingSlot(idx) ==
    /\ gpc[idx] = "mkdir"
    /\ transfers' = [transfers EXCEPT ![idx] = "mkdir"]
    /\ overtaken' = (overtaken \/ Overtakes(idx))
    /\ results' = RecordResult(results, idx, [Path |-> objects[idx].Path, Error |-> "mkdir"])
    /\ gpc' = [gpc EXCEPT ![idx] = "wgDone"]
    /\ UNCHANGED <<cmd, store, request, pc, exit, stdout, storeOps, objects, versions, run, prevOut, outVars,
                   parallel, semCap, sem, wg, counts, metadata, versionFile, listErr, disk>>

\* os.MkdirAll fails: the error is recorded and the goroutine returns
GMkdirAllFails(idx) ==
    /\ gpc[idx] = "mkdir"
    /\ transfers' = [transfers EXCEPT ![idx] = "mkdir"]
    /\ overtaken' = (overtaken \/ Overtakes(idx))
    /\ results' = RecordResult(results, idx, [Path |-> objects[idx].Path, Error |-> "mkdir"])
    /\ gpc' = [gpc EXCEPT ![idx] = "release"]
    /\ UNCHANGED <<cmd, store, request, pc, exit, stdout, storeOps, objects, versions, run, prevOut, outVars,
                   parallel, semCap, sem, wg, counts, metadata, versionFile, listErr, disk>>

\* what downloadObject returns: nil, or the error of GetObject, os.Create or io.Copy
DownloadErrors == {NilError, "get", "create", "write"}

\* the destination after downloadObject: os.Create truncates or creates the
\* file, io.Copy fills it; nothing is created when GetObject or os.Create fail
DiskAfterDownload(d, objectPath, destPath, err) ==
    IF err \in {"get", "create"} THEN d
    ELSE { f \in d : f.path # destPath }
         \cup { [path |-> destPath, of |-> objectPath, complete |-> (err = NilError)] }

\* c.downloadObject(ctx, object.Path, fullPath) and results[idx] = result
GDownloadObject(idx) ==
    /\ gpc[idx] = "download"
    /\ \E err \in DownloadErrors :
          /\ transfers' = [transfers EXCEPT ![idx] = err]
          /\ overtaken' = (overtaken \/ Overtakes(idx))
          /\ results' = RecordResult(results, idx, [Path |-> objects[idx].Path, Error |-> err])
          /\ disk' = DiskAfterDownload(disk, objects[idx].Path,
                                       FullPath(Destination, objects[idx].Path,
                                                ClientPathPrefix(request.source)), err)
    /\ storeOps' = storeOps \cup {"getObject"}
    /\ gpc' = [gpc EXCEPT ![idx] = "release"]
    /\ UNCHANGED <<cmd, store, request, pc, exit, stdout, objects, versions, run, prevOut, outVars,
                   parallel, semCap, sem, wg, counts, metadata, versionFile, listErr>>

\* deferred: <-sem
GReleaseLeak(idx) ==
    /\ gpc[idx] = "release"
    /\ gpc' = [gpc EXCEPT ![idx] = "wgDone"]
    /\ UNCHANGED <<cmd, store, request, pc, exit, stdout, storeOps, objects, versions, run, prevOut, outVars,
                   parallel, semCap, sem, wg, results, transfers, overtaken, counts, metadata, versionFile, listErr, disk>>

\* deferred: <-sem
GRelease(idx) ==
    /\ gpc[idx] = "release"
    /\ sem' = sem - 1
    /\ gpc' = [gpc EXCEPT ![idx] = "wgDone"]
    /\ UNCHANGED <<cmd, store, request, pc, exit, stdout, storeOps, objects, versions, run, prevOut, outVars,
                   parallel, semCap, wg, results, transfers, overtaken, counts, metadata, versionFile, listErr, disk>>

\* deferred: wg.Done()
GDone(idx) ==
    /\ gpc[idx] = "wgDone"
    /\ wg' = wg - 1
    /\ gpc' = [gpc EXCEPT ![idx] = "exited"]
    /\ UNCHANGED <<cmd, store, request, pc, exit, stdout, storeOps, objects, versions, run, prevOut, outVars,
                   parallel, semCap, sem, results, transfers, overtaken, counts, metadata, versionFile, listErr, disk>>

\* wg.Wait() returns; DownloadAllObjects returns (results, nil)
DlWait ==
    /\ cmd = "in"
    /\ pc = "dlWait"
    /\ wg = 0
    /\ pc' = "count"
    /\ UNCHANGED <<cmd, store, request, exit, stdout, storeOps, objects, versions, run, prevOut, outVars, inVars>>

-----------------------------------------------------------------------------
(* The in command, step by step *)

\* the keys the bucket may hold when in runs: the prefix itself, a key
\* directly below it and one in a subdirectory
InKeys == { <<"d", "/">>, <<"d", "/", "d">>, <<"d", "/", "a", "/", "b">> }

InObjects ==
    { o \in [Key : InKeys, ETag : {"e1"}, LastModified : {1}, Size : {0, 1}] :
        o.Size = 0 => HasSuffix(o.Key, <<"/">>) }

InStores ==
    { S \in SUBSET InObjects :
        /\ Cardinality(S) <= MaxObjects
        /\ \A o1, o2 \in S : o1.Key = o2.Key => o1 = o2 }

InVersions == { NoVersion, [path |-> <<"d", "/", "d">>, etag |-> "e1", lastModified |-> 1] }

InParams ==
    { <<>>,
      [parallel |-> [type |-> "float64", halves |-> 0]],
      [parallel |-> [type |-> "float64", halves |-> 2]],
      [parallel |-> [type |-> "float64", halves |-> 4]],
      [parallel |-> [type |-> "string", text |-> <<"2">>]] }

InitIn ==
    /\ cmd = "in"
    /\ store \in InStores
    /\ request \in [source : Sources, version : InVersions, params : InParams]
    /\ pc = "validate"
    /\ exit = -1
    /\ stdout = <<>>
    /\ storeOps = {}
    /\ objects = <<>>
    /\ versions = <<>>
    /\ run = 1
    /\ prevOut = <<>>
    /\ parallel = 0 /\ semCap = 0 /\ sem = 0 /\ wg = 0
    /\ gpc = <<>> /\ results = <<>> /\ transfers = <<>> /\ overtaken = FALSE
    /\ counts = <<>> /\ metadata = <<>> /\ versionFile = <<>>
    /\ listErr = FALSE /\ disk = {}
    /\ OutVarsUnused

InValidateFails ==
    /\ cmd = "in"
    /\ pc = "validate"
    /\ ~validateSource(request.source)
    /\ Fatal
    /\ UNCHANGED <<cmd, store, request, stdout, storeOps, objects, versions, run, prevOut, outVars, inVars>>

InValidate ==
    /\ cmd = "in"
    /\ pc = "validate"
    /\ validateSource(request.source)
    /\ pc' = "bucketExists"
    /\ UNCHANGED <<cmd, store, request, exit, stdout, storeOps, objects, versions, run, prevOut, outVars, inVars>>

InBucketExists ==
    /\ cmd = "in"
    /\ pc = "bucketExists"
    /\ storeOps' = storeOps \cup {"bucketExists"}
    /\ pc' = "params"
    /\ UNCHANGED <<cmd, store, request, exit, stdout, objects, versions, run, prevOut, outVars, inVars>>

InBucketMissing ==
    /\ cmd = "in"
    /\ pc = "bucketExists"
    /\ storeOps' = storeOps \cup {"bucketExists"}
    /\ Fatal
    /\ UNCHANGED <<cmd, store, request, stdout, objects, versions, run, prevOut, outVars, inVars>>

InParseParallel ==
    /\ cmd = "in"
    /\ pc = "params"
    /\ parallel' = ParseParallel(request.params)
    /\ pc' = "dlList"
    /\ UNCHANGED <<cmd, store, request, exit, stdout, storeOps, objects, versions, run, prevOut, outVars,
                   semCap, sem, wg, gpc, results, transfers, overtaken, counts, metadata, versionFile, listErr, disk>>

\* the loop over results
RECURSIVE CountResults(_)
CountResults(res) ==
    IF res = <<>> THEN [successCount |-> 0, failCount |-> 0]
    ELSE LET rest == CountResults(Tail(res))
         IN  IF Head(res).Error # NilError
             THEN [rest EXCEPT !.failCount = @ + 1]
             ELSE [rest EXCEPT !.successCount = @ + 1]

\* "Add download statistics as metadata"
StatisticsMetadata(c, req) ==
    << [Name |-> "files_downloaded", Value |-> Itoa(c.successCount)],
       [Name |-> "files_failed", Value |-> Itoa(c.failCount)],
       [Name |-> "path_prefix", Value |-> req.source.pathPrefix] >>

\* Format("2006-01-02 15:04:05"): whole seconds
FormatDateTime(t) == t - (t % TicksPerSecond)

\* "If specific version was requested, include its metadata"
VersionMetadata(req) ==
    IF HasVersion(req)
    THEN << [Name |-> "version_path", Value |-> req.version.path],
            [Name |-> "version_etag", Value |-> req.version.etag],
            [Name |-> "version_modified", Value |-> FormatDateTime(req.version.lastModified)] >>
    ELSE <<>>

TotalFailureIfAnyFailed(c) == c.failCount > 0

TotalFailureIfNoneSucceeded(c) == c.successCount = 0

\* "if failCount > 0 && successCount == 0"
TotalFailure(c) == c.failCount > 0 /\ c.successCount = 0

InCount ==
    /\ cmd = "in"
    /\ pc = "count"
    /\ counts' = CountResults(results)
    /\ metadata' = StatisticsMetadata(counts', request)
    /\ pc' = "versionFile"
    /\ UNCHANGED <<cmd, store, request, exit, stdout, storeOps, objects, versions, run, prevOut, outVars,
                   parallel, semCap, sem, wg, gpc, results, transfers, overtaken, versionFile, listErr, disk>>

\* os.WriteFile of the version file succeeds
InWriteVersionFile ==
    /\ cmd = "in"
    /\ pc = "versionFile"
    /\ versionFile' = <<MarshalVersion(request.version)>>
    /\ pc' = "respond"
    /\ UNCHANGED <<cmd, store, request, exit, stdout, storeOps, objects, versions, run, prevOut, outVars,
                   parallel, semCap, sem, wg, gpc, results, transfers, overtaken, counts, metadata, listErr, disk>>

InWriteVersionFileFailsFatally ==
    /\ cmd = "in"
    /\ pc = "versionFile"
    /\ Fatal
    /\ UNCHANGED <<cmd, store, request, stdout, storeOps, objects, versions, run, prevOut, outVars, inVars>>

\* os.WriteFile fails: a warning on stderr
InWriteVersionFileFails ==
    /\ cmd = "in"
    /\ pc = "versionFile"
    /\ pc' = "respond"
    /\ UNCHANGED <<cmd, store, request, exit, stdout, storeOps, objects, versions, run, prevOut, outVars, inVars>>

InAllFailedAfterResponse ==
    /\ cmd = "in"
    /\ pc = "respond"
    /\ TotalFailure(counts)
    /\ metadata' = metadata \o VersionMetadata(request)
    /\ stdout' = Append(stdout, [version |-> MarshalVersion(request.version),
                                 metadata |-> metadata'])
    /\ Fatal
    /\ UNCHANGED <<cmd, store, request, storeOps, objects, versions, run, prevOut, outVars,
                   parallel, semCap, sem, wg, gpc, results, transfers, overtaken, counts, versionFile, listErr, disk>>

\* fatal("all downloads failed")
InAllFailed ==
    /\ cmd = "in"
    /\ pc = "respond"
    /\ TotalFailure(counts)
    /\ metadata' = metadata \o VersionMetadata(request)
    /\ Fatal
    /\ UNCHANGED <<cmd, store, request, stdout, storeOps, objects, versions, run, prevOut, outVars,
                   parallel, semCap, sem, wg, gpc, results, transfers, overtaken, counts, versionFile, listErr, disk>>

\* the response on stdout, and the return from main
InRespond ==
    /\ cmd = "in"
    /\ pc = "respond"
    /\ ~TotalFailure(counts)
    /\ metadata' = metadata \o VersionMetadata(request)
    /\ stdout' = Append(stdout, [version |-> MarshalVersion(request.version),
                                 metadata |-> metadata'])
    /\ pc' = "done"
    /\ exit' = 0
    /\ UNCHANGED <<cmd, store, request, storeOps, objects, versions, run, prevOut, outVars,
                   parallel, semCap, sem, wg, gpc, results, transfers, overtaken, counts, versionFile, listErr, disk>>

NextIn ==
    \/ InValidateFails
    \/ InValidate
    \/ InBucketExists
    \/ InBucketMissing
    \/ InParseParallel
    \/ DlListObjects
    \/ DlListFails
    \/ DlSetup
    \/ DlSpawn
    \/ DlSpawnEnd
    \/ \E idx \in 1..Len(gpc) :
          \/ GAcquire(idx)
          \/ GMkdirAll(idx)
          \/ GMkdirAllFails(idx)
          \/ GDownloadObject(idx)
          \/ GRelease(idx)
          \/ GDone(idx)
    \/ DlWait
    \/ InCount
    \/ InWriteVersionFile
    \/ InWriteVersionFileFails
    \/ InAllFailed
    \/ InRespond

SpecIn == InitIn /\ [][NextIn]_vars

-----------------------------------------------------------------------------
(* Properties of the bulk download *)

\* DownloadAllObjects has just returned its results to main
DlReturned == pc = "count"

\* the download goroutines exist
Downloading == pc \in {"dlSpawn", "dlWait"}

InFlightSet == { idx \in 1..Len(gpc) : InFlight(idx) }

\* the goroutines at work on a transfer: directories, get, file, copy
WorkingSet == { idx \in 1..Len(gpc) : gpc[idx] \in {"mkdir", "download"} }

FailedTransfers == { idx \in 1..Len(transfers) : transfers[idx] \notin {"none", NilError} }

SucceededTransfers == { idx \in 1..Len(transfers) : transfers[idx] = NilError }

\* C7: DownloadAllObjects returns one result per listed object, and result i
\* carries the path of the i-th listed object, whatever the parallelism, the
\* order in which the transfers end and whichever of them fail.
C7_ResultsInListingOrder ==
    DlReturned =>
        /\ Len(results) = Len(objects)
        /\ \A i \in 1..Len(objects) : results[i].Path = objects[i].Path

\* two objects, the later-listed one ended first, and one of the two failed
C7_Witness ==
    /\ DlReturned
    /\ Len(objects) >= 2
    /\ overtaken
    /\ FailedTransfers # {} /\ SucceededTransfers # {}

\* C8: at most semCap transfers are in flight (slot acquired and not yet
\* released), semCap being the effective parallelism; and the transfers at
\* work never outnumber the slots taken.
C8_InFlightBounded ==
    Downloading =>
        /\ semCap = EffectiveParallel(ParseParallel(request.params))
        /\ Cardinality(InFlightSet) <= semCap
        /\ Cardinality(WorkingSet) <= sem

\* every slot is taken by a transfer at work and another transfer waits
C8_Witness ==
    /\ Downloading
    /\ sem = semCap
    /\ Cardinality(WorkingSet) = semCap
    /\ \E idx \in 1..Len(gpc) : gpc[idx] = "acquire"

\* C9: when DownloadAllObjects returns, every listed object has been
\* attempted and its result holds its own path and its own error (nil on
\* success), whichever other transfers failed; and a result changes only
\* in a step of its own transfer.
C9_FaultIsolation ==
    /\ [](DlReturned =>
            \A i \in 1..Len(objects) :
                /\ transfers[i] # "none"
                /\ results[i] = [Path |-> objects[i].Path, Error |-> transfers[i]])
    /\ [][Downloading =>
            \A j \in 1..Len(results) :
                results'[j] # results[j] =>
                    /\ gpc[j] \in {"mkdir", "download"} /\ gpc'[j] = "release"
                    /\ \A k \in 1..Len(results) : k # j => gpc'[k] = gpc[k]]_vars

\* a directory-creation failure and a success side by side, the success
\* recorded after the failure of an object listed before it
C9_Witness ==
    /\ DlReturned
    /\ \E i, j \in 1..Len(objects) :
          /\ i < j
          /\ results[i].Error = "mkdir"
          /\ results[j].Error = NilError
    /\ ~overtaken

MetadataValue(md, name) ==
    md[CHOOSE i \in 1..Len(md) : md[i].Name = name /\ \A j \in 1..(i - 1) : md[j].Name # name].Value

IsResponse(doc) == "metadata" \in DOMAIN doc

Responses == { i \in 1..Len(stdout) : IsResponse(stdout[i]) }

\* main of in has ended after the transfers were counted
InEnded == pc \in {"done", "fatal"} /\ counts # <<>>

\* C10: over N >= 1 listed objects, in ends fatally with no response when all
\* N transfers failed; when at least one succeeded it ends with exit code 0
\* and one response whose files_downloaded and files_failed sum to N,
\* files_failed being the number of failed transfers.
C10_TotalFailureOrCounts ==
    (InEnded /\ Len(objects) >= 1) =>
        IF Cardinality(FailedTransfers) = Len(objects)
        THEN exit = 1 /\ Responses = {}
        ELSE /\ exit = 0
             /\ Cardinality(Responses) = 1
             /\ \A r \in Responses :
                   LET md == stdout[r].metadata
                       downloaded == Atoi(MetadataValue(md, "files_downloaded"))
                       failed == Atoi(MetadataValue(md, "files_failed"))
                   IN  /\ downloaded.ok /\ failed.ok
                       /\ downloaded.value + failed.value = Len(objects)
                       /\ failed.value = Cardinality(FailedTransfers)

\* a partial failure: in succeeds and reports one transfer of each kind
C10_Witness ==
    /\ InEnded /\ exit = 0
    /\ Len(objects) = 2
    /\ Cardinality(FailedTransfers) = 1
    /\ \E r \in Responses :
          /\ MetadataValue(stdout[r].metadata, "files_downloaded") = <<"1">>
          /\ MetadataValue(stdout[r].metadata, "files_failed") = <<"1">>

\* all transfers of a non-empty listing failed and in ended fatally
C10_WitnessAllFailed ==
    /\ InEnded /\ exit = 1
    /\ Len(objects) = 2
    /\ Cardinality(FailedTransfers) = 2

-----------------------------------------------------------------------------
(* in: a failing listing, and what reaches standard output *)

\* C11: when the store's list call fails after the bucket was found, in ends
\* fatally with a non-zero exit code and writes no response.
\* DownloadAllObjects tests err only inside the loop over the listed
\* objects, which a failed listing leaves empty, so this does not hold.
C11_ListingFailureIsFatal ==
    (pc \in {"done", "fatal"} /\ listErr) => (exit = 1 /\ Responses = {})

\* C12: on a successful run the whole of standard output is one response
\* document. DownloadAllObjects prints every listed path to standard
\* output before the response, so this does not hold of in.
C12_StdoutIsOneResponse ==
    (pc = "done" /\ exit = 0) => (Len(stdout) = 1 /\ IsResponse(stdout[1]))

-----------------------------------------------------------------------------
(* in: where the downloaded files go *)

\* the prefix as the listing uses it: empty, or ending in one "/"
NormalizedPrefix ==
    LET p == request.source.pathPrefix
    IN  IF p = <<>> \/ p[Len(p)] = "/" THEN p ELSE Append(p, "/")

\* the last name in a key: the longest stretch without "/" that ends at the
\* key's last character other than "/"
Basename(key) ==
    LET last == CHOOSE i \in 1..Len(key) :
                    key[i] # "/" /\ \A j \in (i + 1)..Len(key) : key[j] = "/"
        first == CHOOSE i \in 1..last :
                    /\ \A j \in i..last : key[j] # "/"
                    /\ i > 1 => key[i - 1] = "/"
    IN  SubSeq(key, first, last)

\* a path as the names it is made of: "/" separates, empty names fall away
RECURSIVE SplitNames(_, _, _)
SplitNames(path, name, names) ==
    IF path = <<>> THEN (IF name = <<>> THEN names ELSE Append(names, name))
    ELSE IF Head(path) = "/"
         THEN SplitNames(Tail(path), <<>>, IF name = <<>> THEN names ELSE Append(names, name))
         ELSE SplitNames(Tail(path), Append(name, Head(path)), names)

Names(path) == SplitNames(path, <<>>, <<>>)

\* C19: a downloaded object whose key is the normalised prefix followed by a
\* non-empty remainder R is written to <dest>/R; one whose key is the prefix
\* itself is written to <dest>/<basename of the key>, never to <dest>.
C19_DestinationPath ==
    \A f \in disk :
        /\ \A R \in { SubSeq(f.of, i, Len(f.of)) : i \in 1..Len(f.of) } :
               f.of = NormalizedPrefix \o R =>
                   Names(f.path) = Names(Destination) \o Names(R)
        /\ f.of = NormalizedPrefix =>
               /\ Names(f.path) = Append(Names(Destination), Basename(f.of))
               /\ Names(f.path) # Names(Destination)

\* both cases after one download: the object named like the prefix and an
\* object two levels below it, each in its own file
C19_Witness ==
    /\ DlReturned
    /\ \E f, g \in disk :
          /\ f.of = NormalizedPrefix /\ f.complete
          /\ f.path = <<"t", "/", "d">>
          /\ g.of = <<"d", "/", "a", "/", "b">> /\ g.complete
          /\ g.path = <<"t", "/", "a", "/", "b">>

\* the objects a listing of the bucket under the source's prefix holds
ListedKeys ==
    { o.Key : o \in { o \in store : /\ HasPrefix(o.Key, NormalizedPrefix)
                                     /\ ~(o.Size = 0 /\ o.Key[Len(o.Key)] = "/") } }

\* C16: the objects in attempts to fetch and the paths it writes them to are
\* decided by the source configuration and the store's listing alone: every
\* listed object is attempted, nothing else is, and each file is where the
\* source's prefix puts its object, whichever Version was requested.
C16_VersionDoesNotSelect ==
    (DlReturned /\ ~listErr) =>
        /\ { objects[i].Path : i \in 1..Len(objects) } = ListedKeys
        /\ Len(objects) = Cardinality(ListedKeys)
        /\ \A i \in 1..Len(objects) : transfers[i] # "none"
        /\ { f.of : f \in disk } \subseteq ListedKeys
        /\ \A i \in 1..Len(objects) :
              transfers[i] \in {NilError, "write"} =>
                  \E f \in disk :
                      f.path = FullPath(Destination, objects[i].Path,
                                        ClientPathPrefix(request.source))

\* a version naming one object was requested and in fetched that object and
\* another one
C16_Witness ==
    /\ DlReturned
    /\ request.version.path = <<"d", "/", "d">>
    /\ \E f, g \in disk :
          /\ f.of = request.version.path /\ f.complete
          /\ g.of # request.version.path /\ g.complete

-----------------------------------------------------------------------------
(* in over the forms the parallel parameter and the path prefix can take *)

Float(h) == [parallel |-> [type |-> "float64", halves |-> h]]
String(t) == [parallel |-> [type |-> "string", text |-> t]]

\* params as they may arrive, each with the parallelism the downloads are
\* to run with: absent, null, a boolean, numbers (in halves) and strings
ParallelCases ==
    { [params |-> <<>>, expected |-> 5],
      [params |-> [parallel |-> [type |-> "nil"]], expected |-> 5],
      [params |-> [parallel |-> [type |-> "bool"]], expected |-> 5],
      [params |-> Float(-2), expected |-> 5],
      [params |-> Float(-1), expected |-> 5],
      [params |-> Float(0), expected |-> 5],
      [params |-> Float(1), expected |-> 5],
      [params |-> Float(2), expected |-> 1],
      [params |-> Float(3), expected |-> 1],
      [params |-> Float(5), expected |-> 2],
      [params |-> Float(6), expected |-> 3],
      [params |-> String(<<>>), expected |-> 5],
      [params |-> String(<<"x">>), expected |-> 5],
      [params |-> String(<<"3", "x">>), expected |-> 5],
      [params |-> String(<<"2", ".", "5">>), expected |-> 5],
      [params |-> String(<<"0">>), expected |-> 5],
      [params |-> String(<<"-", "1">>), expected |-> 5],
      [params |-> String(<<"2">>), expected |-> 2],
      [params |-> String(<<"+", "3">>), expected |-> 3],
      [params |-> String(<<"1", "2">>), expected |-> 12] }

\* the source with its prefix absent, bare, slash-terminated, and the
\* sources validateSource rejects
InputSources ==
    Sources \cup { [ValidSource EXCEPT !.pathPrefix = p] : p \in { <<>>, <<"d", "/">> } }

\* an empty bucket, every bucket of one object, and one of two objects,
\* of which one is named like the prefix
InputStores ==
    { {} } \cup { {o} : o \in InObjects }
           \cup { { o \in InObjects : o.Size = 1 /\ o.Key # <<"d", "/", "d">> } }

InitInInputs ==
    /\ cmd = "in"
    /\ store \in InputStores
    /\ request \in [source : InputSources, version : {NoVersion},
                     params : { c.params : c \in ParallelCases }]
    /\ pc = "validate"
    /\ exit = -1
    /\ stdout = <<>>
    /\ storeOps = {}
    /\ objects = <<>>
    /\ versions = <<>>
    /\ run = 1
    /\ prevOut = <<>>
    /\ parallel = 0 /\ semCap = 0 /\ sem = 0 /\ wg = 0
    /\ gpc = <<>> /\ results = <<>> /\ transfers = <<>> /\ overtaken = FALSE
    /\ counts = <<>> /\ metadata = <<>> /\ versionFile = <<>>
    /\ listErr = FALSE /\ disk = {}
    /\ OutVarsUnused

SpecInInputs == InitInInputs /\ [][NextIn]_vars

\* the semaphore of DownloadAllObjects exists
SemaphoreMade == cmd = "in" /\ pc \in {"dlSpawn", "dlWait", "count", "versionFile", "respond", "done"}

\* C15: the downloads run with parallelism 5 when params.parallel is absent,
\* is not a number or a string, is a string that is not a decimal integer, or
\* denotes a value <= 0 (a fraction below 1 included); otherwise with the
\* integer value of the number (truncated) or of the string.
C15_EffectiveParallelism ==
    SemaphoreMade =>
        \A c \in ParallelCases : request.params = c.params => semCap = c.expected

\* a fraction that truncates to 0 fell back to 5, and the download ran
C15_Witness ==
    /\ SemaphoreMade
    /\ request.params = Float(1)
    /\ semCap = 5
    /\ pc = "done"
    /\ Len(objects) = 1

-----------------------------------------------------------------------------
(* out *)

\* the source directory holds at most MaxFiles entries when out runs
MaxFiles == 2

\* the source directory, os.Args[1] of out
SourcePath == <<"s">>

FileNames == { <<"a">>, <<"b">>, <<"a", "b">> }

\* what the source directory may hold: files and directories, one per name
SourceDirs ==
    { D \in SUBSET [name : FileNames, isDir : BOOLEAN] :
        /\ Cardinality(D) <= MaxFiles
        /\ \A e1, e2 \in D : e1.name = e2.name => e1 = e2 }

Bool(b) == [type |-> "bool", value |-> b]
Str(t) == [type |-> "string", text |-> t]

\* params of an OutRequest: nil, upload_enabled as a boolean or as a string,
\* file as a pattern, a name, a malformed pattern, or not a string
OutParams ==
    { <<>>,
      [file |-> Str(<<"a">>)],
      [upload_enabled |-> Bool(FALSE)],
      [upload_enabled |-> Str(<<"t", "r", "u", "e">>)],
      [upload_enabled |-> Bool(TRUE)],
      [upload_enabled |-> Bool(TRUE), file |-> Str(<<"*">>)],
      [upload_enabled |-> Bool(TRUE), file |-> Str(<<"a">>)],
      [upload_enabled |-> Bool(TRUE), file |-> Str(<<"[">>)],
      [upload_enabled |-> Bool(TRUE), file |-> Bool(TRUE)] }

UploadDisabledUnlessPresent(params) == "upload_enabled" \notin DOMAIN params

\* uploadDisabled: true unless params["upload_enabled"] is the boolean true
UploadDisabled(params) ==
    IF "upload_enabled" \in DOMAIN params /\ params.upload_enabled.type = "bool"
    THEN ~params.upload_enabled.value
    ELSE TRUE

\* filePattern: "*" unless params["file"] is a string
FilePattern(params) ==
    IF "file" \in DOMAIN params /\ params.file.type = "string"
    THEN params.file.text
    ELSE <<"*">>

\* the names in a set, in the order of sort.Strings
SortedNames(S) ==
    CHOOSE f \in Orderings(S) : \A i, j \in 1..Cardinality(S) : i < j => StrLess(f[i], f[j])

\* filepath.Glob(filepath.Join(dir, pattern)) over the entries of dir: an
\* error for a malformed pattern, otherwise the matching paths, sorted
Glob(dir, entries, pattern) ==
    IF \E i \in 1..Len(pattern) : pattern[i] = "["
    THEN [err |-> TRUE, files |-> <<>>]
    ELSE LET names == { e.name : e \in { e \in entries : pattern = <<"*">> \/ pattern = e.name } }
             sorted == SortedNames(names)
         IN  [err |-> FALSE,
              files |-> [i \in 1..Len(sorted) |-> Join(dir, sorted[i])]]

\* relativePath and objectPath of the upload loop
ObjectPath(file, dir, pathPrefix) ==
    Join(pathPrefix, TrimPrefix(TrimPrefix(file, dir), <<"/">>))

\* fmt.Sprintf("upload-%d", time.Now().Unix())
UploadETag(t) ==
    CASE t \div TicksPerSecond = 0 -> "upload-0"
      [] t \div TicksPerSecond = 1 -> "upload-1"
      [] t \div TicksPerSecond = 2 -> "upload-2"
      [] OTHER -> "upload-3"

\* Client.PutObject: the object is in the bucket under the key
PutObject(bucket, objectPath, t) ==
    { o \in bucket : o.Key # objectPath }
    \cup { [Key |-> objectPath, ETag |-> "e1", LastModified |-> t, Size |-> 1] }

InitOut ==
    /\ cmd = "out"
    /\ store = {}
    /\ request \in [source : InputSources, params : OutParams]
    /\ sourceDir \in SourceDirs
    /\ pc = "validate"
    /\ exit = -1
    /\ stdout = <<>>
    /\ storeOps = {}
    /\ objects = <<>>
    /\ versions = <<>>
    /\ run = 1
    /\ prevOut = <<>>
    /\ InVarsUnused
    /\ files = <<>> /\ fileIdx = 0 /\ attempts = <<>>
    /\ uploadedFiles = <<>> /\ lastVersion = NoVersion
    /\ fsOps = {}

OutValidateFails ==
    /\ cmd = "out"
    /\ pc = "validate"
    /\ ~validateSource(request.source)
    /\ Fatal
    /\ UNCHANGED <<cmd, store, request, stdout, storeOps, objects, versions, run, prevOut, outVars, inVars>>

OutValidate ==
    /\ cmd = "out"
    /\ pc = "validate"
    /\ validateSource(request.source)
    /\ pc' = "params"
    /\ UNCHANGED <<cmd, store, request, exit, stdout, storeOps, objects, versions, run, prevOut, outVars, inVars>>

\* "Return a minimal response for no-op out"
OutDisabled ==
    /\ cmd = "out"
    /\ pc = "params"
    /\ UploadDisabled(request.params)
    /\ \E now \in Times :
          stdout' = Append(stdout,
                           [version |-> MarshalVersion([path |-> "no-upload", etag |-> "disabled",
                                                        lastModified |-> now]),
                            metadata |-> << [Name |-> "upload_status", Value |-> "disabled"] >>])
    /\ pc' = "done"
    /\ exit' = 0
    /\ UNCHANGED <<cmd, store, request, storeOps, objects, versions, run, prevOut, outVars, inVars>>

OutEnabledWithoutBucketCheck ==
    /\ cmd = "out"
    /\ pc = "params"
    /\ ~UploadDisabled(request.params)
    /\ pc' = "glob"
    /\ UNCHANGED <<cmd, store, request, exit, stdout, storeOps, objects, versions, run, prevOut, outVars, inVars>>

OutEnabled ==
    /\ cmd = "out"
    /\ pc = "params"
    /\ ~UploadDisabled(request.params)
    /\ pc' = "bucketExists"
    /\ UNCHANGED <<cmd, store, request, exit, stdout, storeOps, objects, versions, run, prevOut, outVars, inVars>>

OutBucketExists ==
    /\ cmd = "out"
    /\ pc = "bucketExists"
    /\ storeOps' = storeOps \cup {"bucketExists"}
    /\ pc' = "glob"
    /\ UNCHANGED <<cmd, store, request, exit, stdout, objects, versions, run, prevOut, outVars, inVars>>

OutBucketMissing ==
    /\ cmd = "out"
    /\ pc = "bucketExists"
    /\ storeOps' = storeOps \cup {"bucketExists"}
    /\ Fatal
    /\ UNCHANGED <<cmd, store, request, stdout, objects, versions, run, prevOut, outVars, inVars>>

\* "Find files to upload": the pattern is malformed, or nothing matches
OutGlobFails ==
    /\ cmd = "out"
    /\ pc = "glob"
    /\ LET g == Glob(SourcePath, sourceDir, FilePattern(request.params))
       IN  g.err \/ Len(g.files) = 0
    /\ fsOps' = fsOps \cup {"glob"}
    /\ Fatal
    /\ UNCHANGED <<cmd, store, request, stdout, storeOps, objects, versions, run, prevOut, inVars,
                   sourceDir, files, fileIdx, attempts, uploadedFiles, lastVersion>>

OutGlob ==
    /\ cmd = "out"
    /\ pc = "glob"
    /\ LET g == Glob(SourcePath, sourceDir, FilePattern(request.params))
       IN  /\ ~g.err /\ Len(g.files) > 0
           /\ files' = g.files
    /\ fsOps' = fsOps \cup {"glob"}
    /\ fileIdx' = 1
    /\ pc' = "upload"
    /\ UNCHANGED <<cmd, store, request, exit, stdout, storeOps, objects, versions, run, prevOut, inVars,
                   sourceDir, attempts, uploadedFiles, lastVersion>>

\* the source directory entry a globbed path names
EntryOf(file) == CHOOSE e \in sourceDir : Join(SourcePath, e.name) = file

InLoop == cmd = "out" /\ pc = "upload" /\ fileIdx <= Len(files)

BreakLoop(i) == Len(files) + 1

\* "continue": the loop goes on with the next file
Continue(i) == i + 1

\* one iteration that ends in "continue" before the file is uploaded
SkipFile(outcome, ops) ==
    /\ attempts' = Append(attempts, outcome)
    /\ fsOps' = fsOps \cup ops
    /\ fileIdx' = Continue(fileIdx)
    /\ UNCHANGED <<cmd, store, request, pc, exit, stdout, storeOps, objects, versions, run, prevOut,
                   inVars, sourceDir, files, uploadedFiles, lastVersion>>

\* os.Stat fails
OutStatFails ==
    /\ InLoop
    /\ SkipFile("stat", {"stat"})

\* info.IsDir()
OutSkipDir ==
    /\ InLoop
    /\ EntryOf(files[fileIdx]).isDir
    /\ SkipFile("dir", {"stat"})

\* os.Open fails
OutOpenFails ==
    /\ InLoop
    /\ ~EntryOf(files[fileIdx]).isDir
    /\ SkipFile("open", {"stat", "open"})

\* client.PutObject fails
OutPutFails ==
    /\ InLoop
    /\ ~EntryOf(files[fileIdx]).isDir
    /\ attempts' = Append(attempts, "put")
    /\ fsOps' = fsOps \cup {"stat", "open"}
    /\ storeOps' = storeOps \cup {"putObject"}
    /\ fileIdx' = Continue(fileIdx)
    /\ UNCHANGED <<cmd, store, request, pc, exit, stdout, objects, versions, run, prevOut,
                   inVars, sourceDir, files, uploadedFiles, lastVersion>>

OutUploadKeepingFirst ==
    /\ InLoop
    /\ ~EntryOf(files[fileIdx]).isDir
    /\ attempts' = Append(attempts, "ok")
    /\ fsOps' = fsOps \cup {"stat", "open"}
    /\ storeOps' = storeOps \cup {"putObject"}
    /\ LET objectPath == ObjectPath(files[fileIdx], SourcePath, request.source.pathPrefix)
       IN  /\ uploadedFiles' = Append(uploadedFiles, objectPath)
           /\ \E now \in Times :
                 /\ store' = PutObject(store, objectPath, now)
                 /\ lastVersion' = IF uploadedFiles = <<>>
                                   THEN [path |-> objectPath, etag |-> UploadETag(now),
                                         lastModified |-> now]
                                   ELSE lastVersion
    /\ fileIdx' = fileIdx + 1
    /\ UNCHANGED <<cmd, request, pc, exit, stdout, objects, versions, run, prevOut,
                   inVars, sourceDir, files>>

\* the file is uploaded
OutUpload ==
    /\ InLoop
    /\ ~EntryOf(files[fileIdx]).isDir
    /\ attempts' = Append(attempts, "ok")
    /\ fsOps' = fsOps \cup {"stat", "open"}
    /\ storeOps' = storeOps \cup {"putObject"}
    /\ LET objectPath == ObjectPath(files[fileIdx], SourcePath, request.source.pathPrefix)
       IN  /\ uploadedFiles' = Append(uploadedFiles, objectPath)
           /\ \E now \in Times :
                 /\ store' = PutObject(store, objectPath, now)
                 /\ lastVersion' = [path |-> objectPath, etag |-> UploadETag(now),
                                    lastModified |-> now]
    /\ fileIdx' = fileIdx + 1
    /\ UNCHANGED <<cmd, request, pc, exit, stdout, objects, versions, run, prevOut,
                   inVars, sourceDir, files>>

OutLoopEnded == cmd = "out" /\ pc = "upload" /\ fileIdx > Len(files)

\* "if len(uploadedFiles) == 0"
NoneUploaded(uploaded) == Len(uploaded) = 0

OutNoneUploaded ==
    /\ OutLoopEnded
    /\ NoneUploaded(uploadedFiles)
    /\ Fatal
    /\ UNCHANGED <<cmd, store, request, stdout, storeOps, objects, versions, run, prevOut, outVars, inVars>>

\* "Prepare metadata"
UploadMetadata(uploaded, pattern) ==
    << [Name |-> "files_uploaded", Value |-> Itoa(Len(uploaded))],
       [Name |-> "upload_pattern", Value |-> pattern] >>

OutRespond ==
    /\ OutLoopEnded
    /\ ~NoneUploaded(uploadedFiles)
    /\ stdout' = Append(stdout,
                        [version |-> MarshalVersion(lastVersion),
                         metadata |-> UploadMetadata(uploadedFiles, FilePattern(request.params))])
    /\ pc' = "done"
    /\ exit' = 0
    /\ UNCHANGED <<cmd, store, request, storeOps, objects, versions, run, prevOut, outVars, inVars>>

NextOut ==
    \/ OutValidateFails
    \/ OutValidate
    \/ OutDisabled
    \/ OutEnabled
    \/ OutBucketExists
    \/ OutBucketMissing
    \/ OutGlobFails
    \/ OutGlob
    \/ OutStatFails
    \/ OutSkipDir
    \/ OutOpenFails
    \/ OutPutFails
    \/ OutUpload
    \/ OutNoneUploaded
    \/ OutRespond

SpecOut == InitOut /\ [][NextOut]_vars

-----------------------------------------------------------------------------
(* Properties of out *)

OutEnded == cmd = "out" /\ pc \in {"done", "fatal"}

\* params.upload_enabled is present and is the boolean true
UploadEnabled ==
    /\ "upload_enabled" \in DOMAIN request.params
    /\ request.params.upload_enabled = Bool(TRUE)

Matched ==
    LET pattern == IF "file" \in DOMAIN request.params /\ request.params.file.type = "string"
                   THEN request.params.file.text ELSE <<"*">>
    IN  { e \in sourceDir : pattern = <<"*">> \/ pattern = e.name }

Uploaded == { i \in 1..Len(attempts) : attempts[i] = "ok" }

\* C18: with upload enabled, a file that fails to stat, open or upload is
\* skipped and the matched files after it are still attempted; out ends
\* fatally exactly when the glob matched nothing or no file was uploaded,
\* and otherwise succeeds with files_uploaded the number of uploads.
C18_FailuresAreSkipped ==
    (OutEnded /\ UploadEnabled) =>
        /\ "glob" \in fsOps => Len(attempts) = Cardinality(Matched)
        /\ exit = 1 <=> (Matched = {} \/ Uploaded = {})
        /\ exit # 1 =>
              /\ exit = 0
              /\ Cardinality(Responses) = 1
              /\ \A r \in Responses :
                    MetadataValue(stdout[r].metadata, "files_uploaded") = Itoa(Cardinality(Uploaded))

\* the first of two files failed to upload, the second was uploaded, and
\* out reported one file
C18_Witness ==
    /\ OutEnded /\ exit = 0
    /\ attempts = <<"put", "ok">>
    /\ \E r \in Responses :
          MetadataValue(stdout[r].metadata, "files_uploaded") = <<"1">>

-----------------------------------------------------------------------------
(* check, in and out side by side *)

\* one process of one of the three commands, over an empty bucket or one
\* that holds one object
InitAll ==
    \/ /\ InitCheck
       /\ Cardinality(store) <= 1
       /\ \A o \in store : o.ETag = "e1"
       /\ request.version \in {NoVersion} \cup { ToVersion(ToObjectInfo(o)) : o \in store }
    \/ /\ InitIn
       /\ Cardinality(store) <= 1
       /\ request.version = NoVersion
       /\ request.params = <<>>
    \/ InitOut

NextAll ==
    \/ NextCheck
    \/ NextIn
    \/ NextOut

SpecAll == InitAll /\ [][NextAll]_vars

\* a response document is on standard output
ResponseWritten ==
    IF cmd = "check" THEN stdout # <<>> ELSE Responses # {}

\* C13: in check, in and out a run that ends fatally has written no response
\* to standard output, and once the response is written no fatal end follows.
C13_NoResponseOnFatal ==
    /\ [](pc = "fatal" => (exit = 1 /\ ~ResponseWritten))
    /\ [][ResponseWritten => pc' # "fatal"]_vars

\* in ended fatally after every transfer of a non-empty listing failed: the
\* listed paths are on standard output, a response is not
C13_Witness ==
    /\ cmd = "in" /\ pc = "fatal"
    /\ counts # <<>>
    /\ Len(stdout) >= 1
    /\ ~ResponseWritten

\* one of endpoint, access key, secret key and bucket is empty
RequiredFieldEmpty ==
    \E f \in {"endpoint", "accessKey", "secretKey", "bucket"} : request.source[f] = ""

\* C14: in check, in and out, when endpoint, access key, secret key or bucket
\* is empty the run ends fatally, its only step being the one from the
\* validation to the fatal end, and no store operation is ever invoked.
C14_InvalidSourceTouchesNothing ==
    RequiredFieldEmpty =>
        /\ storeOps = {}
        /\ store = {} \/ cmd # "out"
        /\ pc \in {"validate", "fatal"}
        /\ pc = "fatal" => exit = 1
        /\ pc = "validate" => ENABLED <<NextAll>>_vars

\* out with upload enabled and an empty bucket name has ended fatally
C14_Witness ==
    /\ cmd = "out" /\ pc = "fatal"
    /\ request.source.bucket = ""
    /\ UploadEnabled
    /\ \E e \in sourceDir : ~e.isDir

-----------------------------------------------------------------------------
(* Termination of the bulk download *)

\* in with parallelism 1, where transfers wait for the one slot, and with
\* the default parallelism over the buckets that are not the largest
InitInFair ==
    /\ InitIn
    /\ request.version = NoVersion
    /\ request.params \in { <<>>, Float(2) }
    /\ Cardinality(store) = MaxObjects => request.params = Float(2)

\* the runtime runs a step of the process whenever one is possible: every
\* call on the store and on the file system returns
SpecInFair == InitInFair /\ [][NextIn]_vars /\ WF_vars(NextIn)

Ended(idx) == idx <= Len(gpc) /\ gpc[idx] = "exited" /\ transfers[idx] # "none"

\* the way of a transfer: it is started, waits for a slot, holds it while it
\* creates the directories and downloads, gives it back, and is done
TransferSteps ==
    { <<"none", "acquire">>, <<"acquire", "mkdir">>, <<"mkdir", "download">>,
      <<"mkdir", "release">>, <<"download", "release">>, <<"release", "wgDone">>,
      <<"wgDone", "exited">> }

\* C20: whatever the number of listed objects, the parallelism and the
\* failures, DownloadAllObjects returns, and when it does every listed
\* transfer has acquired a slot, completed or failed, and ended; the
\* download is never stuck and no transfer leaves its way.
C20_DownloadTerminates ==
    /\ (cmd = "in" /\ pc = "dlList") ~> DlReturned
    /\ [](Downloading => ENABLED <<NextIn>>_vars)
    /\ [](DlReturned => /\ wg = 0 /\ sem = 0
                        /\ \A idx \in 1..Len(objects) : Ended(idx))
    /\ [][Downloading =>
            \A idx \in 1..Len(gpc) :
                gpc'[idx] # gpc[idx] => <<gpc[idx], gpc'[idx]>> \in TransferSteps]_vars

\* two objects went through one slot, one of the transfers failed, and
\* DownloadAllObjects returned
C20_Witness ==
    /\ DlReturned
    /\ Len(objects) = 2
    /\ semCap = 1
    /\ Cardinality(FailedTransfers) = 1
    /\ \A idx \in 1..2 : Ended(idx)

-----------------------------------------------------------------------------
(* The semaphore of the bulk download *)

\* C21: a slot is taken when a transfer passes the acquire and given back
\* exactly once, by the deferred release, on every way through the transfer,
\* the failure of the directory creation and of the download included; the
\* slots held are as many as the transfers in flight, and none is held when
\* DownloadAllObjects returns.
C21_EveryAcquireIsReleased ==
    /\ [](sem = Cardinality(InFlightSet))
    /\ [](DlReturned => sem = 0)
    /\ [][\A idx \in 1..Len(gpc) :
            /\ (~InFlight(idx) /\ gpc'[idx] \in {"mkdir", "download", "release"}) =>
                  (gpc[idx] = "acquire" /\ gpc'[idx] = "mkdir" /\ sem' = sem + 1)
            /\ (InFlight(idx) /\ gpc'[idx] \notin {"mkdir", "download", "release"}) =>
                  (gpc[idx] = "release" /\ gpc'[idx] = "wgDone" /\ sem' = sem - 1)
            /\ (gpc'[idx] = "exited" /\ transfers[idx] # "none") => ~InFlight(idx)]_vars

\* DownloadAllObjects returned after one transfer failed to create its
\* directory and another failed to download
C21_Witness ==
    /\ DlReturned
    /\ sem = 0
    /\ \E i, j \in 1..Len(transfers) :
          /\ transfers[i] = "mkdir"
          /\ transfers[j] \in {"get", "create", "write"}

-----------------------------------------------------------------------------
(* The bucket check comes first *)

TransferOps == {"listObjects", "getObject", "putObject"}

\* C22: in check, in and out with upload enabled no list, get or put is
\* invoked before the bucket-existence check; when that check fails or
\* finds no bucket the run ends fatally there, with nothing listed, no
\* transfer started, no file at the destination, no object put and no
\* response, and nothing follows the fatal end.
C22_BucketCheckFirst ==
    /\ [](storeOps \cap TransferOps # {} => "bucketExists" \in storeOps)
    /\ [][storeOps' \cap TransferOps # {} => "bucketExists" \in storeOps]_vars
    /\ [][(pc = "bucketExists" /\ pc' = "fatal") =>
            /\ exit' = 1
            /\ storeOps' = {"bucketExists"}
            /\ objects' = <<>> /\ gpc' = <<>> /\ transfers' = <<>>
            /\ disk' = {} /\ versionFile' = <<>>
            /\ fsOps' = {} /\ store' = store
            /\ stdout' = <<>>]_vars
    /\ [][pc = "fatal" => pc' = "fatal" /\ storeOps' = storeOps /\ stdout' = stdout]_vars

\* in found no bucket, or could not ask, and ended fatally having done
\* nothing else
C22_Witness ==
    /\ cmd = "in" /\ pc = "fatal"
    /\ storeOps = {"bucketExists"}
    /\ store # {}
    /\ disk = {} /\ stdout = <<>>

-----------------------------------------------------------------------------
(* in: the version file *)

\* C23: writing <destination>/.resource_version.json is best effort: the
\* step that writes it goes on to the response whether the write succeeds
\* or fails and changes nothing else, and the outcome of in, the version and
\* the metadata of its response are those the transfers and the request
\* give, with or without the file.
C23_VersionFileIsBestEffort ==
    /\ [][(cmd = "in" /\ pc = "versionFile") =>
            /\ pc' = "respond"
            /\ exit' = exit /\ stdout' = stdout
            /\ counts' = counts /\ metadata' = metadata /\ disk' = disk]_vars
    /\ [](InEnded =>
            /\ exit = 1 <=> (FailedTransfers # {} /\ SucceededTransfers = {})
            /\ exit = 0 =>
                  /\ Cardinality(Responses) = 1
                  /\ \A r \in Responses :
                        /\ stdout[r].version = MarshalVersion(request.version)
                        /\ stdout[r].metadata =
                              StatisticsMetadata([successCount |-> Cardinality(SucceededTransfers),
                                                  failCount |-> Cardinality(FailedTransfers)],
                                                 request)
                              \o VersionMetadata(request))

\* the version file could not be written and in succeeded all the same
C23_Witness ==
    /\ InEnded /\ exit = 0
    /\ versionFile = <<>>
    /\ SucceededTransfers # {}
    /\ Responses # {}

-----------------------------------------------------------------------------
(* out: the reported version *)

MatchedNames == { e.name : e \in Matched }

\* the name at a position of the glob order, which is the order of the names
NameAt(i) == CHOOSE n \in MatchedNames : Cardinality({ m \in MatchedNames : StrLess(m, n) }) = i - 1

\* the key a file of the source directory is uploaded under
KeyOf(name) ==
    LET prefix == request.source.pathPrefix
    IN  IF prefix = <<>> THEN name
        ELSE IF prefix[Len(prefix)] = "/" THEN prefix \o name
        ELSE prefix \o <<"/">> \o name

LastUploaded == CHOOSE i \in Uploaded : \A j \in Uploaded : j <= i

\* C24: with upload enabled and at least one upload, the version path out
\* reports is the key of the last file in glob order whose upload
\* succeeded, whatever happens to the files after it; the loop handles one
\* file per step, in glob order, and uploadedFiles holds the keys of the
\* uploads in that order.
C24_LastUploadIsTheVersion ==
    /\ []((OutEnded /\ exit = 0 /\ UploadEnabled) =>
            /\ Uploaded # {}
            /\ \A r \in Responses : stdout[r].version.path = KeyOf(NameAt(LastUploaded)))
    /\ []((cmd = "out" /\ pc = "upload") =>
            /\ Len(attempts) = fileIdx - 1
            /\ Len(uploadedFiles) = Cardinality(Uploaded)
            /\ \A k \in 1..Len(uploadedFiles) :
                  \E i \in Uploaded :
                      /\ Cardinality({ j \in Uploaded : j <= i }) = k
                      /\ uploadedFiles[k] = KeyOf(NameAt(i)))
    /\ [][(cmd = "out" /\ pc = "upload" /\ pc' = "upload") =>
            /\ fileIdx' = fileIdx + 1
            /\ Len(attempts') = Len(attempts) + 1
            /\ \A i \in 1..Len(attempts) : attempts'[i] = attempts[i]]_vars

\* the first of two files was uploaded, the second was not, and out
\* reported the first
C24_Witness ==
    /\ OutEnded /\ exit = 0
    /\ attempts = <<"ok", "put">>
    /\ \E r \in Responses : stdout[r].version.path = KeyOf(NameAt(1))
    /\ KeyOf(NameAt(1)) # KeyOf(NameAt(2))

-----------------------------------------------------------------------------
(* downloadObject step by step: GetObject, os.Create, io.Copy.  Here the
   files below the destination are a set of [path, bytes]. *)

\* the bytes of an object
Content(obj) == [i \in 1..obj.Size |-> [key |-> obj.Path, at |-> i]]

DestPath(idx) == FullPath(Destination, objects[idx].Path, ClientPathPrefix(request.source))

BytesAt(d, path) ==
    IF \E f \in d : f.path = path THEN (CHOOSE f \in d : f.path = path).bytes ELSE <<>>

\* os.Create: the file exists and is empty
Truncate(d, path) == { f \in d : f.path # path } \cup { [path |-> path, bytes |-> <<>>] }

\* a write at offset 0 of a file opened without O_APPEND: the bytes beyond
\* the written ones stay
WriteAtStart(d, path, data) ==
    { f \in d : f.path # path }
    \cup { [path |-> path,
            bytes |-> data \o SubSeq(BytesAt(d, path), Len(data) + 1, Len(BytesAt(d, path)))] }

\* the transfer of idx ends with err: result.Error = err; results[idx] = result
EndTransfer(idx, err) ==
    /\ transfers' = [transfers EXCEPT ![idx] = err]
    /\ overtaken' = (overtaken \/ Overtakes(idx))
    /\ results' = RecordResult(results, idx, [Path |-> objects[idx].Path, Error |-> err])
    /\ gpc' = [gpc EXCEPT ![idx] = "release"]

\* c.client.GetObject returns the object
GGetObject(idx) ==
    /\ gpc[idx] = "download"
    /\ storeOps' = storeOps \cup {"getObject"}
    /\ gpc' = [gpc EXCEPT ![idx] = "create"]
    /\ UNCHANGED <<cmd, store, request, pc, exit, stdout, objects, versions, run, prevOut, outVars,
                   parallel, semCap, sem, wg, results, transfers, overtaken, counts, metadata,
                   versionFile, listErr, disk>>

\* "failed to get object"
GGetObjectFails(idx) ==
    /\ gpc[idx] = "download"
    /\ storeOps' = storeOps \cup {"getObject"}
    /\ EndTransfer(idx, "get")
    /\ UNCHANGED <<cmd, store, request, pc, exit, stdout, objects, versions, run, prevOut, outVars,
                   parallel, semCap, sem, wg, counts, metadata, versionFile, listErr, disk>>

\* os.Create(destPath)
GCreate(idx) ==
    /\ gpc[idx] = "create"
    /\ disk' = Truncate(disk, DestPath(idx))
    /\ gpc' = [gpc EXCEPT ![idx] = "copy"]
    /\ UNCHANGED <<cmd, store, request, pc, exit, stdout, storeOps, objects, versions, run, prevOut,
                   outVars, parallel, semCap, sem, wg, results, transfers, overtaken, counts,
                   metadata, versionFile, listErr>>

\* "failed to create file"
GCreateFails(idx) ==
    /\ gpc[idx] = "create"
    /\ EndTransfer(idx, "create")
    /\ UNCHANGED <<cmd, store, request, pc, exit, stdout, storeOps, objects, versions, run, prevOut,
                   outVars, parallel, semCap, sem, wg, counts, metadata, versionFile, listErr, disk>>

\* io.Copy(file, object): the object fits the buffer and is written at once,
\* at the offset of this goroutine's file, which is 0
GCopy(idx) ==
    /\ gpc[idx] = "copy"
    /\ disk' = WriteAtStart(disk, DestPath(idx), Content(objects[idx]))
    /\ EndTransfer(idx, NilError)
    /\ UNCHANGED <<cmd, store, request, pc, exit, stdout, storeOps, objects, versions, run, prevOut,
                   outVars, parallel, semCap, sem, wg, counts, metadata, versionFile, listErr>>

\* "failed to write file": the read or the write fails, nothing is written
GCopyFails(idx) ==
    /\ gpc[idx] = "copy"
    /\ EndTransfer(idx, "write")
    /\ UNCHANGED <<cmd, store, request, pc, exit, stdout, storeOps, objects, versions, run, prevOut,
                   outVars, parallel, semCap, sem, wg, counts, metadata, versionFile, listErr, disk>>

\* the bucket holds an object named like the prefix and one below it with
\* the same base name, of one or two bytes each
CollidingStores ==
    { { [Key |-> <<"d", "/">>, ETag |-> "e1", LastModified |-> 1, Size |-> m],
        [Key |-> <<"d", "/", "d">>, ETag |-> "e1", LastModified |-> 1, Size |-> n] } :
        m \in {1, 2}, n \in {1, 2} }

InitInFiles ==
    /\ cmd = "in"
    /\ store \in CollidingStores
    /\ request \in [source : Sources, version : {NoVersion}, params : { Float(2), Float(4) }]
    /\ pc = "validate"
    /\ exit = -1
    /\ stdout = <<>>
    /\ storeOps = {}
    /\ objects = <<>>
    /\ versions = <<>>
    /\ run = 1
    /\ prevOut = <<>>
    /\ parallel = 0 /\ semCap = 0 /\ sem = 0 /\ wg = 0
    /\ gpc = <<>> /\ results = <<>> /\ transfers = <<>> /\ overtaken = FALSE
    /\ counts = <<>> /\ metadata = <<>> /\ versionFile = <<>>
    /\ listErr = FALSE /\ disk = {}
    /\ OutVarsUnused

NextInFiles ==
    \/ InValidateFails
    \/ InValidate
    \/ InBucketExists
    \/ InBucketMissing
    \/ InParseParallel
    \/ DlListObjects
    \/ DlListFails
    \/ DlSetup
    \/ DlSpawn
    \/ DlSpawnEnd
    \/ \E idx \in 1..Len(gpc) :
          \/ GAcquire(idx)
          \/ GMkdirAll(idx)
          \/ GMkdirAllFails(idx)
          \/ GGetObject(idx)
          \/ GGetObjectFails(idx)
          \/ GCreate(idx)
          \/ GCreateFails(idx)
          \/ GCopy(idx)
          \/ GCopyFails(idx)
          \/ GRelease(idx)
          \/ GDone(idx)
    \/ DlWait
    \/ InCount
    \/ InWriteVersionFile
    \/ InWriteVersionFileFails
    \/ InAllFailed
    \/ InRespond

SpecInFiles == InitInFiles /\ [][NextInFiles]_vars

\* two listed objects go to one destination path and both transfers
\* succeeded
Collided ==
    /\ Len(objects) = 2
    /\ DestPath(1) = DestPath(2)
    /\ transfers = <<NilError, NilError>>

\* C25: when two listed keys map to one destination path, after the run the
\* file holds the content of exactly one of the two objects.  Both transfers
\* open the file with os.Create and write from offset 0, so a longer object
\* written before a shorter one leaves its tail behind the shorter one's
\* bytes, and this does not hold.
C25_CollisionLeavesOneObject ==
    (DlReturned /\ Collided) =>
        BytesAt(disk, DestPath(1)) \in { Content(objects[1]), Content(objects[2]) }

-----------------------------------------------------------------------------
(* check, run again with the version it emitted last *)

\* time.Parse(time.RFC3339, ...) of a last_modified of whole seconds
ParseRFC3339(w) == (w \div TicksPerSecond) * TicksPerSecond

\* Version.UnmarshalJSON
UnmarshalVersion(doc) ==
    [path |-> doc.path, etag |-> doc.etag, lastModified |-> ParseRFC3339(doc.last_modified)]

\* the first check has no prior version
InitCheckCursor ==
    /\ InitCheck
    /\ request.version = NoVersion

\* the driver runs check again over the same bucket, the prior version being
\* the last element of the response it read from standard output
CheckFeedBack ==
    /\ cmd = "check"
    /\ pc = "done"
    /\ run + 1 \in Runs
    /\ Len(stdout) = 1
    /\ Len(stdout[1]) >= 1
    /\ request' = [request EXCEPT !.version = UnmarshalVersion(stdout[1][Len(stdout[1])])]
    /\ run' = run + 1
    /\ prevOut' = stdout
    /\ pc' = "validate"
    /\ exit' = -1
    /\ stdout' = <<>>
    /\ storeOps' = {}
    /\ objects' = <<>>
    /\ versions' = <<>>
    /\ UNCHANGED <<cmd, store, inVars, outVars>>

NextCheckCursor ==
    \/ CheckValidateFails
    \/ CheckValidate
    \/ CheckBucketExists
    \/ CheckBucketMissing
    \/ CheckListObjects
    \/ CheckListFails
    \/ CheckConvert
    \/ CheckSort
    \/ CheckRespond
    \/ CheckFeedBack

SpecCheckCursor == InitCheckCursor /\ [][NextCheckCursor]_vars

\* C26: the bucket being unchanged, a check whose prior version V is the
\* last element of the previous check's response, as read from the wire,
\* returns exactly [V].  The wire keeps whole seconds, so an object modified
\* in the second of V, after its start, is strictly newer than the V read
\* back and is reported again, and this does not hold.
C26_CursorIsStable ==
    (cmd = "check" /\ pc = "done" /\ run = 2) =>
        /\ versions = <<request.version>>
        /\ stdout = << <<MarshalVersion(request.version)>> >>

-----------------------------------------------------------------------------
(* in over an empty listing *)

\* C27: when nothing is listed under the prefix, no transfer is started and
\* in is not a total failure: it ends with exit code 0 and one response that
\* echoes the requested version and reports files_downloaded=0 and
\* files_failed=0.
C27_EmptyListingSucceeds ==
    (cmd = "in" /\ pc \in {"done", "fatal"} /\ "listObjects" \in storeOps
        /\ ~listErr /\ Len(objects) = 0) =>
        /\ exit = 0
        /\ transfers = <<>> /\ disk = {}
        /\ Cardinality(Responses) = 1
        /\ \A r \in Responses :
              /\ stdout[r].version.path = request.version.path
              /\ stdout[r].version.etag = request.version.etag
              /\ stdout[r].version.last_modified =
                    request.version.lastModified - (request.version.lastModified % TicksPerSecond)
              /\ MetadataValue(stdout[r].metadata, "files_downloaded") = <<"0">>
              /\ MetadataValue(stdout[r].metadata, "files_failed") = <<"0">>

\* a version was requested, the bucket holds only a directory marker under
\* the prefix, and in succeeded with nothing downloaded
C27_Witness ==
    /\ cmd = "in" /\ pc = "done" /\ exit = 0
    /\ ~listErr /\ Len(objects) = 0
    /\ store # {}
    /\ request.version.path # <<>>
    /\ \E r \in Responses :
          /\ stdout[r].version.path = request.version.path
          /\ MetadataValue(stdout[r].metadata, "files_downloaded") = <<"0">>

====
